---- MODULE Spec2Model ----
(***************************************************************************)
(* Speciation engine of opendrift/models/radionuclides.py                  *)
(* (class RadionuclideDrift): the compartment registry and transfer-rate   *)
(* matrix built by prepare_run / init_transfer_rates, the per-element rate *)
(* rows of update_transfer_rates, the stochastic transition of             *)
(* update_speciation with its three effect handlers, and                   *)
(* bottom_interaction.                                                     *)
(*                                                                         *)
(* Numbers.  Rates are integers in a rate unit of 2e-7 1/s, so the 'dummy' *)
(* rates 1e-5, 5e-6, 2e-6, 2e-7 are 50, 25, 10, 1.  The time step is an    *)
(* integer number of time units of ln(2)/2e-7 s, so that                   *)
(* exp(-rate*deltat) = 2^-(rate*deltat) exactly.  Probabilities are        *)
(* fixed-point numbers with MantBits fractional bits (Scale stands for     *)
(* 1.0); like the float64 of numpy, 1 - exp(-x) is exactly 1.0 once        *)
(* exp(-x) is below the last bit.  Uniform draws are the fractions         *)
(* n/RanSteps, n in 0..RanSteps-1, and are compared exactly (by cross      *)
(* multiplication); the second draw can also be TopDraw, the largest value *)
(* np.random.random returns, 1 - 2^-53.  The float64 rounding of           *)
(* np.cumsum(p/psum) matters only against that draw: for a row with two or *)
(* more non-zero entries the last cumulative value is 1 - 2^-52,           *)
(* 1 - 2^-53 or 1.0 depending on the entries (for instance p = 5.1769e-4   *)
(* and 0.99962 give 0.9999999999999998), for a row with one non-zero       *)
(* entry it is exactly 1.0; the model takes both outcomes.  Lengths (z,    *)
(* depths) are whole metres, diameters whole micrometres, Kd is a multiple *)
(* of 1000 so that Kd*susp_mat is whole.  Gaussian draws are the values    *)
(* -std and +std.                                                          *)
(***************************************************************************)
EXTENDS Integers, Sequences, FiniteSets, TLC

\* ------------------------------------------------------------- bounds
NumElements == 2
MantBits == 26
RanSteps == 2

Elements == 1..NumElements
Scale == 2^MantBits

\* An attribute that was never assigned (reading it raises AttributeError).
Undef == -1

\* Zmin when bottom_interaction was not called since the last step began
NoCall == 1

VARIABLES config, time_step, name_species, nspecies, transfer_rates, num,
          specie, z, diameter, transfer_rates1D,
          sea_floor_depth_below_sea_level, Zmin, pc, err

vars == <<config, time_step, name_species, nspecies, transfer_rates, num,
          specie, z, diameter, transfer_rates1D,
          sea_floor_depth_below_sea_level, Zmin, pc, err>>

\* ------------------------------------------------------------ helpers
Range(s) == {s[i] : i \in DOMAIN s}

\* f itself, with every value computed (TLC would otherwise compute f[x]
\* again at each use)
Strict(f) == f @@ <<>>

RECURSIVE SumTo(_, _)
\* f[0] + ... + f[j]  (np.sum over a row, np.cumsum up to index j)
SumTo(f, j) == IF j < 0 THEN 0 ELSE f[j] + SumTo(f, j - 1)

\* ------------------------------------------------- compartment registry
SpeciesOrder ==
    << "LMM", "Colloid", "Particle reversible", "Particle slowly reversible",
       "Particle irreversible", "Sediment reversible",
       "Sediment slowly reversible", "Sediment irreversible" >>

NumAttrs == {"num_lmm", "num_col", "num_prev", "num_srev", "num_psrev",
             "num_ssrev", "num_pirrev", "num_sirrev"}

NoNums == [a \in NumAttrs |-> Undef]

\* list.index: the 0-based position of name (callers test membership first;
\* a missing name raises ValueError)
specie_name2num(names, name) ==
    (CHOOSE i \in DOMAIN names : names[i] = name) - 1

specie_num2name(names, n) == names[n + 1]

IsIn(s, name) == name \in s

\* name_species as prepare_run appends it, in the canonical order
ActiveNames(species) == SelectSeq(SpeciesOrder, LAMBDA s : IsIn(species, s))

\* the two set_config calls of prepare_run
SetFractions(cfg) ==
    [cfg EXCEPT
       !.slowly_fraction =
           IF "Sediment slowly reversible" \in cfg.species
              /\ "Particle slowly reversible" \in cfg.species
           THEN TRUE ELSE @,
       !.irreversible_fraction =
           IF "Sediment irreversible" \in cfg.species
              /\ "Particle irreversible" \in cfg.species
           THEN TRUE ELSE @]

RECURSIVE AssignNums(_, _, _)
\* self.num_x = self.specie_name2num(name) for each <<num_x, name>> of todo,
\* in order, stopping at the first name that is not active (ValueError)
AssignNums(num0, names, todo) ==
    IF todo = <<>> THEN [num |-> num0, ok |-> TRUE]
    ELSE LET a == Head(todo) IN
         IF a[2] \in Range(names)
         THEN AssignNums([num0 EXCEPT ![a[1]] = specie_name2num(names, a[2])],
                         names, Tail(todo))
         ELSE [num |-> num0, ok |-> FALSE]

\* ------------------------------------------------- transfer-rate matrix
NoMatrix == <<>>

Zeros(n) == [i \in 0..(n - 1) |-> [j \in 0..(n - 1) |-> 0]]

SetRate(m, i, j, v) == [m EXCEPT ![i][j] = v]

fill_diagonal(m) ==
    [i \in DOMAIN m |-> [j \in DOMAIN m[i] |-> IF i = j THEN 0 ELSE m[i][j]]]

\* Dc * Kd * susp_mat, susp_mat = 1.e-3
RateLmmPrev(cfg) == (cfg.Dc * cfg.Kd) \div 1000

\* the numerator of the LMM -> Sediment reversible rate
\* the pore fraction taken with the opposite sign
RateLmmSrevNum_PorosityMinusOne(cfg) ==
    ((cfg.Dc * cfg.Kd) \div 1000) * cfg.sedmixdepth * cfg.sediment_density
      * (cfg.porosity - 1) * cfg.effective_fraction * cfg.corr_factor

RateLmmSrevNum(cfg) ==
    ((cfg.Dc * cfg.Kd) \div 1000) * cfg.sedmixdepth * cfg.sediment_density
      * (1 - cfg.porosity) * cfg.effective_fraction * cfg.corr_factor

RateLmmSrev(cfg) == RateLmmSrevNum(cfg) \div cfg.layer_thick

BoknaNames ==
    << <<"num_lmm", "LMM">>, <<"num_prev", "Particle reversible">>,
       <<"num_srev", "Sediment reversible">>,
       <<"num_psrev", "Particle slowly reversible">>,
       <<"num_ssrev", "Sediment slowly reversible">> >>

Bokna_137Cs(cfg, names, n) ==
    LET a  == AssignNums(NoNums, names, BoknaNames)
        nm == a.num
        m1 == SetRate(Zeros(n), nm["num_lmm"], nm["num_prev"], RateLmmPrev(cfg))
        m2 == SetRate(m1, nm["num_prev"], nm["num_lmm"], cfg.Dc)
        m3 == SetRate(m2, nm["num_lmm"], nm["num_srev"], RateLmmSrev(cfg))
        m4 == SetRate(m3, nm["num_srev"], nm["num_lmm"], cfg.Dc * cfg.corr_factor)
        m5 == SetRate(m4, nm["num_srev"], nm["num_ssrev"], cfg.slow_coeff)
        m6 == SetRate(m5, nm["num_prev"], nm["num_psrev"], cfg.slow_coeff)
        m7 == SetRate(m6, nm["num_ssrev"], nm["num_srev"], cfg.slow_coeff \div 10)
        m8 == SetRate(m7, nm["num_psrev"], nm["num_prev"], cfg.slow_coeff \div 10)
    IN  IF ~a.ok
        THEN [transfer_rates |-> Zeros(n), num |-> nm, err |-> "ValueError"]
        ELSE IF cfg.layer_thick = 0
        THEN [transfer_rates |-> m2, num |-> nm, err |-> "ZeroDivisionError"]
        ELSE [transfer_rates |-> fill_diagonal(m8), num |-> nm, err |-> "none"]

DummyNames(cfg) ==
    << <<"num_lmm", "LMM">> >>
    \o (IF "Colloid" \in cfg.species THEN << <<"num_col", "Colloid">> >> ELSE <<>>)
    \o << <<"num_prev", "Particle reversible">>,
          <<"num_srev", "Sediment reversible">> >>
    \o (IF cfg.slowly_fraction
        THEN << <<"num_psrev", "Particle slowly reversible">>,
                <<"num_ssrev", "Sediment slowly reversible">> >>
        ELSE <<>>)

dummy(cfg, names, n) ==
    LET a  == AssignNums(NoNums, names, DummyNames(cfg))
        nm == a.num
        m1 == SetRate(Zeros(n), nm["num_lmm"], nm["num_prev"], 50)
        m2 == SetRate(m1, nm["num_srev"], nm["num_lmm"], 25)
        m3 == SetRate(m2, nm["num_prev"], nm["num_psrev"], 10)
        m4 == SetRate(m3, nm["num_srev"], nm["num_ssrev"], 10)
        m5 == SetRate(m4, nm["num_psrev"], nm["num_prev"], 1)
        m6 == SetRate(m5, nm["num_ssrev"], nm["num_srev"], 1)
    IN  IF ~a.ok
        THEN [transfer_rates |-> Zeros(n), num |-> nm, err |-> "ValueError"]
        ELSE [transfer_rates |-> fill_diagonal(IF cfg.slowly_fraction THEN m6 ELSE m2),
              num |-> nm, err |-> "none"]

\* logging.ERROR is the integer 40: calling it raises TypeError, after the
\* all-zero matrix was installed
NoSetup(n) ==
    [transfer_rates |-> Zeros(n), num |-> NoNums, err |-> "TypeError"]

init_transfer_rates(cfg, names, n) ==
    IF cfg.transfer_setup = "Bokna_137Cs" THEN Bokna_137Cs(cfg, names, n)
    ELSE IF cfg.transfer_setup = "dummy" THEN dummy(cfg, names, n)
    ELSE NoSetup(n)

\* --------------------------------------------------------- rate projector
\* self.transfer_rates[self.elements.specie,:] is indexed by an array, so
\* numpy returns a copy: one row per element
PickRows(m, sp) == [i \in Elements |-> m[sp[i]]]

\* the gate also closing at exactly layer_thick above the seabed
GateSeabed_AtLayerEdge(rows, cfg, nm, sp, zz, depth) ==
    [i \in Elements |->
       IF sp[i] = nm["num_lmm"] /\ zz[i] - (-1 * depth[i]) >= cfg.layer_thick
       THEN [rows[i] EXCEPT ![nm["num_srev"]] = 0]
       ELSE rows[i]]

\* rows of elements that are LMM and further than layer_thick above the
\* seabed get the rate towards Sediment reversible zeroed
GateSeabed(rows, cfg, nm, sp, zz, depth) ==
    [i \in Elements |->
       IF sp[i] = nm["num_lmm"] /\ zz[i] - (-1 * depth[i]) > cfg.layer_thick
       THEN [rows[i] EXCEPT ![nm["num_srev"]] = 0]
       ELSE rows[i]]

\* rows of LMM elements: rate towards Particle reversible times conc3/1.e-3
\* (conc3 is given in units of 1.e-3)
ScaleConc(rows, nm, sp, conc3) ==
    [i \in Elements |->
       IF sp[i] = nm["num_lmm"]
       THEN [rows[i] EXCEPT ![nm["num_prev"]] = @ * conc3[i]]
       ELSE rows[i]]

\* the rows taken as a view of the matrix: the writes reach the matrix rows
\* they were picked from
MatrixAfterProjection_View(m, sp, rows) ==
    [k \in DOMAIN m |->
       IF \E i \in Elements : sp[i] = k
       THEN rows[CHOOSE i \in Elements : sp[i] = k]
       ELSE m[k]]

\* the matrix after the rows were modified: the rows are a copy, so the
\* writes do not reach self.transfer_rates
MatrixAfterProjection(m, sp, rows) == m

\* ----------------------------------------------------- speciation engine
\* exp(-k ln 2) in fixed point
Exp2Neg(k) == IF k > MantBits THEN 0 ELSE 2^(MantBits - k)

\* 1. - np.exp(-rate*deltat)
Prob(rate, deltat) == Scale - Exp2Neg(rate * deltat)

ProbRow(row, deltat) == Strict([j \in DOMAIN row |-> Prob(row[j], deltat)])

\* p = 1. - np.exp(-self.elements.transfer_rates1D*deltat)
ProbRows(rows, deltat) == Strict([i \in Elements |-> ProbRow(rows[i], deltat)])

\* np.sum(p, axis=1) for one element
Psum(p) == SumTo(p, Cardinality(DOMAIN p) - 1)

Psums(p) == Strict([i \in Elements |-> Psum(p[i])])

\* the draw compared with <= instead of <
Shifts_Inclusive(u, psum) == u * Scale <= psum * RanSteps

\* ran1 < psum, for the draw ran1 = u/RanSteps
Shifts(u, psum) == u * Scale < psum * RanSteps

\* the elements with phaseshift[i] = True
PhaseShift(ran1, psum) == {i \in Elements : Shifts(ran1[i], psum[i])}

\* the values of phaseshift over the first draws ran1
PhaseShifts(psum) ==
    {PhaseShift(ran1, psum) : ran1 \in [Elements -> 0..(RanSteps - 1)]}

\* the largest value of np.random.random, 1 - 2^-53, as a second draw
TopDraw == RanSteps

\* np.cumsum of a row of p, and of every element's row (not yet divided
\* by psum)
cumsum(p) == Strict([j \in DOMAIN p |-> SumTo(p, j)])

Cumsums(p) == Strict([i \in Elements |-> cumsum(p[i])])

\* whether the rounded np.cumsum(p/psum) can end below TopDraw: not with one
\* non-zero entry (a/a = 1.0 and the additions of 0. are exact), possibly
\* with more
CumsumShort(p) ==
    IF Cardinality({j \in DOMAIN p : p[j] > 0}) >= 2
    THEN BOOLEAN ELSE {FALSE}

\* for every element, whether its row's cumulative sum can end short
MayEndShort(p) == Strict([i \in Elements |-> TRUE \in CumsumShort(p[i])])

\* np.searchsorted(c/psum, v/RanSteps) for the cumulative sums c: the
\* default side='left' gives the first index whose cumulative value is >=
\* the draw, i.e. the number of indices whose cumulative value is below it.
\* Against TopDraw these are the indices before the last non-zero entry or,
\* when the last cumulative value is rounded short of the draw, all of them.
searchsorted(c, psum, v, short) ==
    IF v = TopDraw
    THEN IF short
         THEN Cardinality(DOMAIN c)
         ELSE Cardinality({j \in DOMAIN c : c[j] < psum})
    ELSE Cardinality({j \in DOMAIN c : c[j] * RanSteps < v * psum})

Rank(S, i) == Cardinality({j \in S : j <= i})

\* the rounding outcomes of the shifted elements' rows, one per shifted
\* element in element order; an outcome shows only against TopDraw
Roundings(may, phaseshift, ran4) ==
    IF \A r \in DOMAIN ran4 : ran4[r] # TopDraw
    THEN {[r \in DOMAIN ran4 |-> FALSE]}
    ELSE {short \in [DOMAIN ran4 -> BOOLEAN] :
            \A i \in phaseshift :
              short[Rank(phaseshift, i)]
                => (ran4[Rank(phaseshift, i)] = TopDraw /\ may[i])}

\* the row taken by the position in the list of shifted elements (p[ii])
\* instead of from the shifted elements' rows (p[phaseshift][ii])
SpecieOut_RowByPosition(sp, c, psum, phaseshift, ran4, short) ==
    Strict([i \in Elements |->
       IF i \in phaseshift
       THEN searchsorted(c[Rank(phaseshift, i)], psum[Rank(phaseshift, i)],
                         ran4[Rank(phaseshift, i)], short[Rank(phaseshift, i)])
       ELSE sp[i]])

\* specie_out: the old specie, and for the shifted elements the index
\* searchsorted gives, each from its own row and its own second draw (ran4
\* has one draw per shifted element, in element order)
SpecieOut(sp, c, psum, phaseshift, ran4, short) ==
    Strict([i \in Elements |->
       IF i \in phaseshift
       THEN searchsorted(c[i], psum[i], ran4[Rank(phaseshift, i)],
                         short[Rank(phaseshift, i)])
       ELSE sp[i]])

\* What the two rounds of draws of update_speciation can give: for the
\* first draws ran1 either no element is shifted (the early return), or the
\* shifted elements get their destinations from the second draws ran4 and
\* the rounding of their cumulative sums.
SpeciationOutcomes(sp, c, psum, may) ==
    UNION {
      IF phaseshift = {}
      THEN {[shifted |-> FALSE, specie_out |-> sp]}
      ELSE UNION {
             {[shifted |-> TRUE,
               specie_out |-> SpecieOut(sp, c, psum, phaseshift, ran4, short)] :
                short \in Roundings(may, phaseshift, ran4)} :
             ran4 \in [1..Cardinality(phaseshift) -> 0..TopDraw]} :
      phaseshift \in PhaseShifts(psum)}

\* the mask without the test on the compartment the element comes from
Mask_AnyOrigin(sp_in, sp_out, k) == {i \in Elements : sp_out[i] = k}

\* (sp_out == k) & (sp_in != k)
Mask(sp_in, sp_out, k) == {i \in Elements : sp_out[i] = k /\ sp_in[i] # k}

\* np.random.normal(0, std, k): k draws, each -std or +std
NoiseSet(k, std) == [1..k -> {-std, std}]

\* ------------------------------------------------------ effect handlers
\* the diameter added to the old one instead of replacing it
AssignDiameter_Additive(diam, M, dia, std, noise) ==
    [i \in Elements |->
       IF i \in M
       THEN diam[i] + dia + (IF std > 0 THEN noise[Rank(M, i)] ELSE 0)
       ELSE diam[i]]

\* diameter[M] = dia, then diameter[M] += noise when std > 0
AssignDiameter(diam, M, dia, std, noise) ==
    [i \in Elements |->
       IF i \in M
       THEN dia + (IF std > 0 THEN noise[Rank(M, i)] ELSE 0)
       ELSE diam[i]]

update_radionuclide_diameter(cfg, nm, diam, sp_in, sp_out, n1, n2, n3) ==
    LET std == cfg.particle_diameter_uncertainty
        d1  == AssignDiameter(diam, Mask(sp_in, sp_out, nm["num_prev"]),
                              cfg.particle_diameter, std, n1)
        d2  == IF cfg.slowly_fraction
               THEN AssignDiameter(d1, Mask(sp_in, sp_out, nm["num_psrev"]),
                                   cfg.particle_diameter, std, n2)
               ELSE d1
        d3  == IF cfg.irreversible_fraction
               THEN AssignDiameter(d2, Mask(sp_in, sp_out, nm["num_pirrev"]),
                                   cfg.particle_diameter, std, n3)
               ELSE d2
        d4  == AssignDiameter(d3, Mask(sp_in, sp_out, nm["num_lmm"]),
                              cfg.dissolved_diameter, 0, <<>>)
        d5  == IF "Colloid" \in cfg.species
               THEN AssignDiameter(d4, Mask(sp_in, sp_out, nm["num_col"]),
                                   cfg.dissolved_diameter, 0, <<>>)
               ELSE d4
    IN  IF cfg.irreversible_fraction /\ nm["num_pirrev"] = Undef
        THEN [diameter |-> d2, err |-> "AttributeError"]
        ELSE IF "Colloid" \in cfg.species /\ nm["num_col"] = Undef
        THEN [diameter |-> d4, err |-> "AttributeError"]
        ELSE [diameter |-> d5, err |-> "none"]

SorbMask(nm, sp_in, sp_out) ==
    {i \in Elements : sp_out[i] = nm["num_srev"] /\ sp_in[i] = nm["num_lmm"]}

DesorbMask(nm, sp_in, sp_out) ==
    {i \in Elements : sp_out[i] = nm["num_lmm"] /\ sp_in[i] = nm["num_srev"]}

sorption_to_sediments(nm, zz, sp_in, sp_out, depth) ==
    [i \in Elements |->
       IF i \in SorbMask(nm, sp_in, sp_out) THEN -1 * depth[i] ELSE zz[i]]

\* the new z of a desorbed element, before the noise
DesorptionLevel(cfg, depth_i) == depth_i + cfg.desorption_depth

desorption_from_sediments(cfg, nm, zz, sp_in, sp_out, depth, noise) ==
    LET M == DesorbMask(nm, sp_in, sp_out) IN
    [i \in Elements |->
       IF i \in M
       THEN DesorptionLevel(cfg, depth[i])
            + (IF cfg.desorption_depth_uncert > 0 THEN noise[Rank(M, i)] ELSE 0)
       ELSE zz[i]]

\* ----------------------------------------------------- bottom deposition
\* the threshold compared with < instead of <=
Deposit_StrictlyBelow(sp, zz, zmin, from, to) ==
    [i \in Elements |-> IF zz[i] < zmin /\ sp[i] = from THEN to ELSE sp[i]]

\* specie[(z <= Zmin) & (specie == from)] = to
Deposit(sp, zz, zmin, from, to) ==
    [i \in Elements |-> IF zz[i] <= zmin /\ sp[i] = from THEN to ELSE sp[i]]

bottom_interaction(cfg, nm, sp, zz, zmin) ==
    LET s1 == Deposit(sp, zz, zmin, nm["num_prev"], nm["num_srev"])
        s2 == IF cfg.slowly_fraction
              THEN Deposit(s1, zz, zmin, nm["num_psrev"], nm["num_ssrev"])
              ELSE s1
        s3 == IF cfg.irreversible_fraction
              THEN Deposit(s2, zz, zmin, nm["num_pirrev"], nm["num_sirrev"])
              ELSE s2
    IN  IF cfg.irreversible_fraction
           /\ (nm["num_pirrev"] = Undef \/ nm["num_sirrev"] = Undef)
        THEN [specie |-> s2, err |-> "AttributeError"]
        ELSE [specie |-> s3, err |-> "none"]

\* ---------------------------------------------------------- configuration
\* the parameter values of the runs of the main specification, in the
\* model's units (each within the range the configspec gives it)
BaseConfig ==
    [transfer_setup |-> "dummy", species |-> {},
     slowly_fraction |-> FALSE, irreversible_fraction |-> FALSE,
     dissolved_diameter |-> 0, particle_diameter |-> 5,
     particle_diameter_uncertainty |-> 0,
     Kd |-> 1000, Dc |-> 1, slow_coeff |-> 0,
     sedmixdepth |-> 2, sediment_density |-> 1, effective_fraction |-> 1,
     corr_factor |-> 1, porosity |-> 0, layer_thick |-> 1,
     desorption_depth |-> 1, desorption_depth_uncert |-> 0]

Base == {"LMM", "Particle reversible", "Sediment reversible"}

Slow == {"Particle slowly reversible", "Sediment slowly reversible"}

Irrev == {"Particle irreversible", "Sediment irreversible"}

\* the runs of the main specification: preset, enabled compartments, the
\* two standard deviations (diameter, desorption depth) and the time step
Setups ==
    { [transfer_setup |-> "dummy", species |-> Base, std |-> 0, time_step |-> 1],
      [transfer_setup |-> "dummy", species |-> Base, std |-> 1, time_step |-> 1],
      [transfer_setup |-> "dummy", species |-> Base \cup Slow, std |-> 0, time_step |-> 2],
      [transfer_setup |-> "dummy", species |-> Base \cup Irrev, std |-> 0, time_step |-> 1],
      [transfer_setup |-> "Bokna_137Cs", species |-> Base \cup Slow, std |-> 0, time_step |-> 1],
      [transfer_setup |-> "Bokna_137Cs", species |-> Base, std |-> 0, time_step |-> 1],
      [transfer_setup |-> "other", species |-> Base, std |-> 0, time_step |-> 1] }

WithSetup(cfg, su) ==
    [cfg EXCEPT !.transfer_setup = su.transfer_setup,
                !.species = su.species,
                !.particle_diameter_uncertainty = su.std,
                !.desorption_depth_uncert = su.std]

\* the environment: the seafloor depth below each element (it alternates
\* between SeaDepth and SeaDepth - 1 from one element to the next)
SeaDepth == 3

Depths == [i \in Elements |-> SeaDepth - ((i + 1) % 2)]

\* the depths an element is seeded at: 1 m above the seabed (inside the
\* default interaction layer) and 2 m above it (outside)
SeedZ(depth_i) == {1 - depth_i, 2 - depth_i}

\* ------------------------------------------------------------------ Init
\* The state after construction and seeding: the configuration is set, the
\* elements are seeded in compartment 0 (the default of 'specie') with the
\* default diameter, between the local seafloor and the surface;
\* prepare_run has not run yet.
Init ==
    /\ \E su \in Setups :
          /\ config = WithSetup(BaseConfig, su)
          /\ time_step = su.time_step
    /\ name_species = <<>>
    /\ nspecies = 0
    /\ transfer_rates = NoMatrix
    /\ num = NoNums
    /\ sea_floor_depth_below_sea_level = Depths
    /\ specie = [i \in Elements |-> 0]
    /\ z \in [Elements -> (-SeaDepth)..0]
    /\ \A i \in Elements : z[i] \in SeedZ(Depths[i])
    /\ diameter = [i \in Elements |-> 0]
    /\ transfer_rates1D = [i \in Elements |-> <<>>]
    /\ Zmin = NoCall
    /\ pc = "new"
    /\ err = "none"

\* the local suspended-matter concentrations, in units of 1.e-3
ConcVals == {0, 1}

\* the floor thresholds the caller passes to bottom_interaction
ZminVals == {-SeaDepth, 1 - SeaDepth}

\* --------------------------------------------------------------- actions
prepare_run ==
    /\ pc = "new"
    /\ LET names == ActiveNames(config.species)
           cfg   == SetFractions(config)
           r     == init_transfer_rates(cfg, names, Len(names))
       IN  /\ name_species' = names
           /\ config' = cfg
           /\ nspecies' = Len(names)
           /\ transfer_rates' = r.transfer_rates
           /\ num' = r.num
           /\ err' = r.err
           /\ pc' = IF r.err = "none" THEN "ready" ELSE "failed"
    /\ UNCHANGED <<time_step, specie, z, diameter, transfer_rates1D,
                   sea_floor_depth_below_sea_level, Zmin>>

update_transfer_rates ==
    /\ pc = "ready"
    /\ IF \E i \in Elements : specie[i] \notin 0..(nspecies - 1)
       THEN \* self.transfer_rates[self.elements.specie,:] raises IndexError
            /\ err' = "IndexError"
            /\ pc' = "failed"
            /\ UNCHANGED <<transfer_rates1D, transfer_rates>>
       ELSE /\ \E conc3 \in [Elements -> ConcVals] :
                 LET rows0 == PickRows(transfer_rates, specie)
                     rows1 == GateSeabed(rows0, config, num, specie, z,
                                         sea_floor_depth_below_sea_level)
                     rows2 == ScaleConc(rows1, num, specie, conc3)
                 IN  /\ transfer_rates1D' = rows2
                     /\ transfer_rates' =
                          MatrixAfterProjection(transfer_rates, specie, rows2)
            /\ pc' = "projected"
            /\ err' = err
    /\ Zmin' = NoCall
    /\ UNCHANGED <<config, time_step, name_species, nspecies, num, specie, z,
                   diameter, sea_floor_depth_below_sea_level>>

update_speciation ==
    /\ pc = "projected"
    /\ \E p \in {ProbRows(transfer_rates1D, time_step)} :
       \E psum \in {Psums(p)} :
       \E c \in {Cumsums(p)} :
       \E may \in {MayEndShort(p)} :
       \E o \in SpeciationOutcomes(specie, c, psum, may) :
         IF ~o.shifted
         THEN /\ pc' = "ready"
              /\ UNCHANGED <<specie, z, diameter, err>>
         ELSE \E specie_out \in {o.specie_out} :
              \E n1 \in NoiseSet(Cardinality(Mask(specie, specie_out, num["num_prev"])),
                                 config.particle_diameter_uncertainty),
                 n2 \in NoiseSet(Cardinality(Mask(specie, specie_out, num["num_psrev"])),
                                 config.particle_diameter_uncertainty),
                 n3 \in NoiseSet(Cardinality(Mask(specie, specie_out, num["num_pirrev"])),
                                 config.particle_diameter_uncertainty),
                 n4 \in NoiseSet(Cardinality(DesorbMask(num, specie, specie_out)),
                                 config.desorption_depth_uncert) :
              \E d \in {update_radionuclide_diameter(config, num, diameter,
                                                     specie, specie_out, n1, n2, n3)} :
                /\ specie' = specie_out
                /\ diameter' = d.diameter
                /\ err' = d.err
                /\ IF d.err = "none"
                   THEN /\ z' = desorption_from_sediments(config, num,
                                   sorption_to_sediments(num, z, specie, specie_out,
                                       sea_floor_depth_below_sea_level),
                                   specie, specie_out,
                                   sea_floor_depth_below_sea_level, n4)
                        /\ pc' = "ready"
                   ELSE /\ z' = z
                        /\ pc' = "failed"
    /\ UNCHANGED <<config, time_step, name_species, nspecies, transfer_rates, num,
                   transfer_rates1D, sea_floor_depth_below_sea_level, Zmin>>

BottomInteraction ==
    /\ pc = "ready"
    /\ \E zm \in ZminVals :
         LET r == bottom_interaction(config, num, specie, z, zm)
         IN  /\ Zmin' = zm
             /\ specie' = r.specie
             /\ err' = r.err
             /\ pc' = IF r.err = "none" THEN "ready" ELSE "failed"
    /\ UNCHANGED <<config, time_step, name_species, nspecies, transfer_rates, num,
                   z, diameter, transfer_rates1D, sea_floor_depth_below_sea_level>>

Next ==
    \/ prepare_run
    \/ update_transfer_rates
    \/ update_speciation
    \/ BottomInteraction

Spec == Init /\ [][Next]_vars

\* ------------------------------------------ matrix-builder specification
\* The inputs of init_transfer_rates: every preset, a range of enabled
\* compartment sets, the slowly_fraction flag as the user may have set it,
\* and parameter values from the configured ranges (0 where the range
\* starts at 0, porosity and effective_fraction also at their maximum 1).
BuildSpecies ==
    { Base, Base \cup Slow, Base \cup Irrev, Base \cup {"Colloid"},
      Base \cup Slow \cup {"Colloid"}, {"LMM", "Particle reversible"},
      Base \cup {"Particle slowly reversible"} }

BuildConfigs ==
    { [BaseConfig EXCEPT !.transfer_setup = ts, !.species = sp,
                         !.slowly_fraction = sf, !.Kd = kd, !.Dc = dc,
                         !.slow_coeff = sl, !.sedmixdepth = smd,
                         !.sediment_density = den, !.effective_fraction = f,
                         !.corr_factor = phi, !.porosity = po,
                         !.layer_thick = lt] :
        ts \in {"Bokna_137Cs", "dummy", "other"}, sp \in BuildSpecies,
        sf \in BOOLEAN, kd \in {0, 1000, 2000}, dc \in {0, 2},
        sl \in {0, 10}, smd \in {0, 1}, den \in {0, 2}, f \in {0, 1},
        phi \in {0, 2}, po \in {0, 1}, lt \in {0, 1, 2} }

InitBuild ==
    /\ config \in BuildConfigs
    /\ time_step = 1
    /\ name_species = <<>>
    /\ nspecies = 0
    /\ transfer_rates = NoMatrix
    /\ num = NoNums
    /\ sea_floor_depth_below_sea_level = Depths
    /\ specie = [i \in Elements |-> 0]
    /\ z = [i \in Elements |-> 1 - Depths[i]]
    /\ diameter = [i \in Elements |-> 0]
    /\ transfer_rates1D = [i \in Elements |-> <<>>]
    /\ Zmin = NoCall
    /\ pc = "new"
    /\ err = "none"

NextBuild == prepare_run

SpecBuild == InitBuild /\ [][NextBuild]_vars

\* ------------------------------------------- round-trip specification
\* Runs of the 'Bokna_137Cs' preset (the one with a Particle reversible ->
\* LMM rate), without and with diameter uncertainty, the elements seeded
\* 2 m above the seabed (outside the interaction layer).
RoundTripStd == {0, 1}

InitRoundTrip ==
    /\ \E std \in RoundTripStd :
          config = [BaseConfig EXCEPT !.transfer_setup = "Bokna_137Cs",
                                      !.species = Base \cup Slow,
                                      !.particle_diameter_uncertainty = std]
    /\ time_step = 1
    /\ name_species = <<>>
    /\ nspecies = 0
    /\ transfer_rates = NoMatrix
    /\ num = NoNums
    /\ sea_floor_depth_below_sea_level = Depths
    /\ specie = [i \in Elements |-> 0]
    /\ z = [i \in Elements |-> 2 - Depths[i]]
    /\ diameter = [i \in Elements |-> 0]
    /\ transfer_rates1D = [i \in Elements |-> <<>>]
    /\ Zmin = NoCall
    /\ pc = "new"
    /\ err = "none"

SpecRoundTrip == InitRoundTrip /\ [][Next]_vars

\* ================================================================ claims
Indices == 0..(nspecies - 1)

\* the name of the compartment element i is in
NameOf(i) ==
    IF specie[i] \in Indices
    THEN specie_num2name(name_species, specie[i]) ELSE "none"

ZeroRow(row) == \A j \in DOMAIN row : row[j] = 0

\* a step of update_speciation / of bottom_interaction, by the position
SpeciationStep == pc = "projected"

BottomStep == pc = "ready" /\ Zmin' # NoCall

\* C1: for every element, the total transition probability compared with
\* the first draw is in [0, 1).  Stated for the rows whose probabilities
\* are exact in the fixed-point representation (every rate*deltat at most
\* MantBits), so a violation is not one of rounding.
C1_TotalProbabilityInUnitInterval ==
    pc = "projected" =>
      \A i \in Elements :
        (\A j \in Indices : transfer_rates1D[i][j] * time_step <= MantBits)
          => LET ps == Psum(ProbRow(transfer_rates1D[i], time_step))
             IN  0 <= ps /\ ps < Scale

\* C2: an element whose compartment changes in update_speciation goes to a
\* compartment whose effective rate is non-zero; whenever the selected
\* destination is an entry of the element's row, its rate is > 0.
C2_DestinationHasNonZeroRate ==
    [][SpeciationStep =>
         \A i \in Elements :
           (specie'[i] # specie[i] /\ specie'[i] \in DOMAIN transfer_rates1D[i])
             => transfer_rates1D[i][specie'[i]] > 0]_vars

\* C3: with zero desorption uncertainty, an element going from Sediment
\* reversible to LMM gets z = -(seafloor depth) + desorption_depth.
C3_DesorptionAboveSeabed ==
    [][(SpeciationStep /\ pc' = "ready" /\ config.desorption_depth_uncert = 0) =>
         \A i \in Elements :
           (specie[i] = num["num_srev"] /\ specie'[i] = num["num_lmm"])
             => z'[i] = -sea_floor_depth_below_sea_level[i]
                          + config.desorption_depth]_vars

\* C4: bottom_interaction(Zmin) moves every Particle reversible element with
\* z <= Zmin to Sediment reversible, leaves the compartment of every element
\* with z > Zmin, and of every element in LMM, Colloid or a sediment
\* compartment, as it was, and changes no z and no diameter.
C4_BottomDeposition ==
    [][BottomStep =>
         /\ \A i \in Elements :
              /\ (specie[i] = num["num_prev"] /\ z[i] <= Zmin')
                    => specie'[i] = num["num_srev"]
              /\ (\/ z[i] > Zmin'
                  \/ NameOf(i) \in {"LMM", "Colloid", "Sediment reversible",
                                    "Sediment slowly reversible",
                                    "Sediment irreversible"})
                    => specie'[i] = specie[i]
         /\ z' = z
         /\ diameter' = diameter]_vars

\* An ensemble after a deposition that moved one element and left another
\* Particle reversible element, above the threshold, where it was.
C4_Witness ==
    /\ pc = "ready" /\ Zmin # NoCall
    /\ \E i, k \in Elements :
         /\ specie[i] = num["num_srev"] /\ z[i] <= Zmin
         /\ z[i] > -sea_floor_depth_below_sea_level[i]
         /\ specie[k] = num["num_prev"] /\ z[k] > Zmin

\* C5: with Particle irreversible and Sediment irreversible both active,
\* neither the diameter handler nor bottom_interaction fails on the
\* irreversible compartment indices.
C5_IrreversibleHandled ==
    ({"Particle irreversible", "Sediment irreversible"} \subseteq config.species)
      => err # "AttributeError"

\* C6: an unknown preset yields UnknownTransferSetup and no matrix.
C6_UnknownSetupRejected ==
    (pc # "new" /\ config.transfer_setup \notin {"Bokna_137Cs", "dummy"})
      => (err = "UnknownTransferSetup" /\ transfer_rates = NoMatrix)

\* C7: every matrix init_transfer_rates builds has a zero diagonal and no
\* negative entry.
C7_MatrixNonNegativeZeroDiagonal ==
    pc = "ready" =>
      \A i \in Indices :
        /\ transfer_rates[i][i] = 0
        /\ \A j \in Indices : transfer_rates[i][j] >= 0

\* A built 'Bokna_137Cs' matrix with its computed entries positive.
C7_Witness ==
    /\ pc = "ready" /\ config.transfer_setup = "Bokna_137Cs"
    /\ transfer_rates[num["num_lmm"]][num["num_srev"]] > 0
    /\ transfer_rates[num["num_lmm"]][num["num_prev"]] > 0
    /\ transfer_rates[num["num_ssrev"]][num["num_srev"]] > 0

\* C8: once prepare_run is over, no step changes the transfer-rate matrix or
\* the compartment name <-> index mapping.
C8_MatrixAndRegistryFrozen ==
    [][pc # "new" =>
         /\ transfer_rates' = transfer_rates
         /\ name_species' = name_species
         /\ nspecies' = nspecies
         /\ num' = num]_vars

\* The projector changed an element's row (gating or scaling) and the
\* matrix row it was copied from still has the baseline value.
C8_Witness ==
    /\ pc = "projected"
    /\ \E i \in Elements :
         /\ transfer_rates1D[i] # transfer_rates[specie[i]]
         /\ transfer_rates[specie[i]][num["num_srev"]] > 0
         /\ transfer_rates1D[i][num["num_srev"]] = 0

\* element i is LMM and further above the seabed than the layer thickness
Gated(i) ==
    /\ specie[i] = num["num_lmm"]
    /\ z[i] + sea_floor_depth_below_sea_level[i] > config.layer_thick

\* C9: after the projection, the rate towards Sediment reversible is 0 for
\* an LMM element further than layer_thick above the seabed, and the matrix
\* value for every other element.
C9_SeabedGating ==
    pc = "projected" =>
      \A i \in Elements :
        transfer_rates1D[i][num["num_srev"]] =
          IF Gated(i) THEN 0 ELSE transfer_rates[specie[i]][num["num_srev"]]

\* One LMM element outside the layer (rate zeroed) and one inside it (rate
\* kept), under a matrix with a positive LMM -> Sediment reversible rate.
C9_Witness ==
    /\ pc = "projected"
    /\ transfer_rates[num["num_lmm"]][num["num_srev"]] > 0
    /\ \E i, k \in Elements :
         /\ Gated(i) /\ transfer_rates1D[i][num["num_srev"]] = 0
         /\ specie[k] = num["num_lmm"] /\ ~Gated(k)
         /\ transfer_rates1D[k][num["num_srev"]] > 0

\* C10: an element whose effective rate row is all zero has total
\* probability 0 and keeps its compartment in update_speciation, whatever
\* is drawn.
C10_ZeroRowNeverTransitions ==
    [][SpeciationStep =>
         \A i \in Elements :
           ZeroRow(transfer_rates1D[i])
             => /\ Psum(ProbRow(transfer_rates1D[i], time_step)) = 0
                /\ specie'[i] = specie[i]]_vars

\* After a step of the 'dummy' preset without the slow fraction: a Particle
\* reversible element had an all-zero row and is still Particle reversible,
\* while another element (Sediment reversible before) moved to LMM.
C10_Witness ==
    /\ pc = "ready" /\ config.transfer_setup = "dummy" /\ ~config.slowly_fraction
    /\ \E i, k \in Elements :
         /\ DOMAIN transfer_rates1D[i] = Indices
         /\ ZeroRow(transfer_rates1D[i])
         /\ specie[i] = num["num_prev"]
         /\ transfer_rates1D[k] = transfer_rates[num["num_srev"]]
         /\ specie[k] = num["num_lmm"]

\* C11: an element whose compartment is the same after update_speciation as
\* before keeps its diameter and its z, also when other elements transition
\* and also when a handler fails part-way.
C11_UnchangedElementUntouched ==
    [][SpeciationStep =>
         \A i \in Elements :
           specie'[i] = specie[i]
             => (diameter'[i] = diameter[i] /\ z'[i] = z[i])]_vars

\* After a step in which one element desorbed (Sediment reversible -> LMM, z
\* and diameter rewritten) while a Particle reversible element with a noisy
\* diameter stayed where it was.
C11_Witness ==
    /\ pc = "ready" /\ config.particle_diameter_uncertainty > 0
    /\ \E i, k \in Elements :
         /\ DOMAIN transfer_rates1D[i] = Indices
         /\ transfer_rates1D[k] = transfer_rates[num["num_srev"]]
         /\ specie[k] = num["num_lmm"]
         /\ z[k] # -sea_floor_depth_below_sea_level[k]
         /\ transfer_rates1D[i] = transfer_rates[num["num_prev"]]
         /\ specie[i] = num["num_prev"]
         /\ diameter[i] # config.particle_diameter

\* C12: an element going LMM -> Particle reversible gets the configured
\* particle diameter, perturbed only when the uncertainty is > 0; an element
\* going Particle reversible -> LMM gets exactly the dissolved diameter,
\* whatever its diameter was.
C12_DiameterRoundTrip ==
    [][(SpeciationStep /\ pc' = "ready") =>
         \A i \in Elements :
           /\ (specie[i] = num["num_lmm"] /\ specie'[i] = num["num_prev"])
                => /\ diameter'[i] - config.particle_diameter
                        \in {-config.particle_diameter_uncertainty,
                             config.particle_diameter_uncertainty}
                   /\ config.particle_diameter_uncertainty = 0
                        => diameter'[i] = config.particle_diameter
           /\ (specie[i] = num["num_prev"] /\ specie'[i] = num["num_lmm"])
                => diameter'[i] = config.dissolved_diameter]_vars

\* An element back in LMM with the dissolved diameter, straight from Particle
\* reversible (its row is that compartment's and it never desorbed), where
\* it had a noisy diameter, next to an element that is Particle reversible
\* with a perturbed diameter.
C12_Witness ==
    /\ pc = "ready" /\ config.particle_diameter_uncertainty > 0
    /\ config.dissolved_diameter # config.particle_diameter
    /\ \E i, k \in Elements :
         /\ transfer_rates1D[i] = transfer_rates[num["num_prev"]]
         /\ specie[i] = num["num_lmm"]
         /\ z[i] <= 0
         /\ diameter[i] = config.dissolved_diameter
         /\ specie[k] = num["num_prev"]
         /\ diameter[k] # config.particle_diameter

\* the destinations the second draw can select from element i's projected row
Destinations(i) ==
    LET p == ProbRow(transfer_rates1D[i], time_step)
        c == cumsum(p)
    IN  {searchsorted(c, Psum(p), v, FALSE) : v \in 0..TopDraw}
          \cup {searchsorted(c, Psum(p), TopDraw, short) : short \in CumsumShort(p)}

\* element i's projected row comes from the matrix row of its compartment
\* (each entry is the matrix entry, scaled by the concentration or zeroed)
RowOfOwnCompartment(i) ==
    \A j \in Indices :
      \E c \in ConcVals \cup {0, 1} :
        transfer_rates1D[i][j] = c * transfer_rates[specie[i]][j]

\* C13: within a step, the projector leaves every compartment as it is, and
\* update_speciation with its handlers leaves an element in its compartment
\* or puts it in the one destination selected from the row of the
\* compartment it had when the step began.
C13_AtMostOneTransition ==
    [][/\ (pc = "ready" /\ pc' = "projected") => specie' = specie
       /\ SpeciationStep =>
            \A i \in Elements :
              /\ RowOfOwnCompartment(i)
              /\ specie'[i] = specie[i] \/ specie'[i] \in Destinations(i)]_vars

\* After a step of the 'dummy' preset: one element that began the step in
\* LMM is now Particle reversible with the particle diameter, another that
\* began in LMM is still there.
C13_Witness ==
    /\ pc = "ready" /\ config.transfer_setup = "dummy" /\ ~config.slowly_fraction
    /\ config.particle_diameter_uncertainty = 0
    /\ \E i, k \in Elements :
         /\ DOMAIN transfer_rates1D[i] = Indices
         /\ transfer_rates1D[i][num["num_prev"]] > 0
         /\ specie[i] = num["num_prev"]
         /\ diameter[i] = config.particle_diameter
         /\ transfer_rates1D[k][num["num_prev"]] > 0
         /\ specie[k] = num["num_lmm"]

\* C14: the elements are seeded with z <= 0, at or above the seafloor; with
\* zero desorption uncertainty every element has z <= 0 after any sequence
\* of steps and bottom_interaction calls.
C14_DepthNeverPositive ==
    config.desorption_depth_uncert = 0 => \A i \in Elements : z[i] <= 0

\* the number of elements in compartment k
CountIn(k) == Cardinality({i \in Elements : specie[i] = k})

RECURSIVE SumCounts(_)

\* the per-compartment counts of compartments 0..k-1, added up
SumCounts(k) == IF k = 0 THEN 0 ELSE SumCounts(k - 1) + CountIn(k - 1)

\* C15: once the run is prepared, every element's compartment is an index in
\* 0..nspecies-1, the ensemble has the elements it was seeded with, and the
\* per-compartment counts add up to the ensemble size.
C15_ValidCompartmentAndCount ==
    pc # "new" =>
      /\ DOMAIN specie = Elements
      /\ \A i \in Elements : specie[i] \in Indices
      /\ SumCounts(nspecies) = NumElements

====
